---- MODULE Spec2Model ----
(***************************************************************************)
(* Model of the holiday engine of holidays-jp (package holiday) and of    *)
(* the table generator internal/gen/gen.go.                                *)
(*                                                                         *)
(* Dates are Go strings compared byte-wise; a string is modelled as the    *)
(* sequence of its byte codes ('-' = 45, '0'..'9' = 48..57), so that       *)
(* fmt.Sprintf, strings.HasPrefix and the < / >= / == of the code are      *)
(* computed on the same representation the code computes them on.          *)
(***************************************************************************)
EXTENDS Integers, Sequences, FiniteSets, TLC

VARIABLES
    holidays,               \* var holidays []Holiday (generated static table)
    annuallyHolidaysRules,  \* var annuallyHolidaysRules []annuallyHolidaysRule
    specialHolidays,        \* var specialHolidays []Holiday
    sunLon,                 \* sunLongitude at JST midnight of each scanned day
    op,                     \* the function called last
    args,                   \* its arguments
    result,                 \* its return value
    rule                    \* the local `rule` of the last calc call (0 = nil)

vars == <<holidays, annuallyHolidaysRules, specialHolidays, sunLon,
          op, args, result, rule>>

(***************************************************************************)
(* Bounds of the model                                                     *)
(***************************************************************************)
MaxTable == 4
MaxGen == 2
MaxSpecial == 2
MaxIndex == 3

(***************************************************************************)
(* Strings                                                                 *)
(***************************************************************************)
DashChar == 45
ZeroChar == 48
NineChar == 57

Min(a, b) == IF a < b THEN a ELSE b

\* The decimal digits of n >= 0, most significant first.
RECURSIVE Digits(_)
Digits(n) ==
    IF n < 10 THEN <<ZeroChar + n>>
    ELSE Digits(n \div 10) \o <<ZeroChar + (n % 10)>>

\* Left-pad s with '0' up to width w.
RECURSIVE ZeroPad(_, _)
ZeroPad(s, w) == IF Len(s) >= w THEN s ELSE ZeroPad(<<ZeroChar>> \o s, w)

\* fmt.Sprintf("%0<w>d", n): the sign counts in the width ("%04d" of -1 is "-001").
FmtInt(n, w) ==
    IF n >= 0 THEN ZeroPad(Digits(n), w)
    ELSE <<DashChar>> \o ZeroPad(Digits(-n), w - 1)

\* fmt.Sprintf("%04d-%02d-%02d", y, m, d)
FormatDate(y, m, d) ==
    FmtInt(y, 4) \o <<DashChar>> \o FmtInt(m, 2) \o <<DashChar>> \o FmtInt(d, 2)

\* Go's a < b on strings: byte-wise lexicographic.
StrLess(a, b) ==
    \E k \in 1 .. (Min(Len(a), Len(b)) + 1) :
        /\ \A j \in 1 .. (k - 1) : a[j] = b[j]
        /\ \/ k > Len(a) /\ k <= Len(b)
           \/ k <= Len(a) /\ k <= Len(b) /\ a[k] < b[k]

\* Go's a >= b on strings.
StrGeq(a, b) == ~StrLess(a, b)

\* strings.HasPrefix(s, p)
HasPrefix(s, p) == Len(s) >= Len(p) /\ SubSeq(s, 1, Len(p)) = p

\* Holiday{}: the zero value.
EmptyHoliday == [Date |-> <<>>, Name |-> ""]

\* A slice expression s[lo:hi] (0-based, hi exclusive); out of order bounds panic.
Panic == "panic: slice bounds out of range"
SliceExpr(s, lo, hi) ==
    IF 0 <= lo /\ lo <= hi /\ hi <= Len(s) THEN SubSeq(s, lo + 1, hi) ELSE Panic

(***************************************************************************)
(* internal/gen/gen.go: the static table is formatDate of each CSV row,    *)
(* sorted by the date string.                                              *)
(***************************************************************************)
\* 2021/1/1 -> 2021-01-01
formatDate(row) == FormatDate(row.y, row.m, row.d)

\* The least date string of a non-empty set of records.
MinByDate(S) == CHOOSE x \in S : \A z \in S : ~StrLess(z.Date, x.Date)

\* sort.Slice(holidays, Date <) of records with distinct dates.
RECURSIVE SortSlice(_)
SortSlice(S) ==
    IF S = {} THEN <<>>
    ELSE LET x == MinByDate(S) IN <<x>> \o SortSlice(S \ {x})

\* formatHolidays: the generated `var holidays`.
GeneratedTable(rows) ==
    SortSlice({[Date |-> formatDate(r), Name |-> r.name] : r \in rows})

\* CSV rows the generator may be fed (one row per date).
CsvPool ==
    { [y |-> 2020, m |-> 1,  d |-> 1,  name |-> "New Year's Day"],
      [y |-> 2020, m |-> 1,  d |-> 31, name |-> "Last of January"],
      [y |-> 2020, m |-> 2,  d |-> 1,  name |-> "First of February"],
      [y |-> 2020, m |-> 12, d |-> 31, name |-> "Last of December"],
      [y |-> 2021, m |-> 1,  d |-> 1,  name |-> "New Year's Day"],
      [y |-> 2021, m |-> 8,  d |-> 8,  name |-> "Mountain Day"],
      [y |-> 2021, m |-> 12, d |-> 1,  name |-> "First of December"],
      [y |-> 2021, m |-> 12, d |-> 31, name |-> "Last of December"] }

CsvInputs == {S \in SUBSET CsvPool : Cardinality(S) <= MaxTable}

(***************************************************************************)
(* Lookup engine                                                           *)
(***************************************************************************)
\* sort.Search(len(holidays), func(i) { return holidays[i].Date >= date }):
\* the binary search of package sort, on 0-based indices.
RECURSIVE SearchLoop(_, _, _)
SearchLoop(i, j, date) ==
    IF i < j
    THEN LET h == (i + j) \div 2
         IN  IF ~StrGeq(holidays[h + 1].Date, date)
             THEN SearchLoop(h + 1, j, date)
             ELSE SearchLoop(i, h, date)
    ELSE i

searchHolidays(date) == SearchLoop(0, Len(holidays), date)

\* A findHoliday that tests the found index with > instead of >=.
findHolidayStrict(year, month, day) ==
    LET date == FormatDate(year, month, day)
        idx  == searchHolidays(date)
    IN  IF idx < Len(holidays) /\ StrLess(date, holidays[idx + 1].Date)
        THEN [holiday |-> holidays[idx + 1], found |-> TRUE]
        ELSE [holiday |-> EmptyHoliday, found |-> FALSE]

findHoliday(year, month, day) ==
    LET date == FormatDate(year, month, day)
        idx  == searchHolidays(date)
    IN  IF idx < Len(holidays) /\ holidays[idx + 1].Date = date
        THEN [holiday |-> holidays[idx + 1], found |-> TRUE]
        ELSE [holiday |-> EmptyHoliday, found |-> FALSE]

monthStartDate(year, month) ==
    FmtInt(year, 4) \o <<DashChar>> \o FmtInt(month, 2) \o <<DashChar, ZeroChar, ZeroChar + 1>>
monthEndDate(year, month) ==
    FmtInt(year, 4) \o <<DashChar>> \o FmtInt(month, 2) \o <<DashChar, NineChar, NineChar>>

\* A findHolidaysInMonth whose upper key is day 31 instead of the sentinel 99.
findHolidaysInMonthTo31(year, month) ==
    SliceExpr(holidays, searchHolidays(monthStartDate(year, month)),
              searchHolidays(FormatDate(year, month, 31)))

findHolidaysInMonth(year, month) ==
    SliceExpr(holidays, searchHolidays(monthStartDate(year, month)),
              searchHolidays(monthEndDate(year, month)))

yearStartDate(year) ==
    FmtInt(year, 4) \o <<DashChar, ZeroChar, ZeroChar + 1, DashChar, ZeroChar, ZeroChar + 1>>
yearEndDate(year) ==
    FmtInt(year, 4) \o <<DashChar, NineChar, NineChar, DashChar, NineChar, NineChar>>

\* A findHolidaysInYear with its two keys exchanged.
findHolidaysInYearSwapped(year) ==
    SliceExpr(holidays, searchHolidays(yearEndDate(year)),
              searchHolidays(yearStartDate(year)))

findHolidaysInYear(year) ==
    SliceExpr(holidays, searchHolidays(yearStartDate(year)),
              searchHolidays(yearEndDate(year)))

(***************************************************************************)
(* Solar longitude and the equinox search                                  *)
(*                                                                         *)
(* sunLongitude is a float64 trigonometric series; its value at JST        *)
(* midnight of each scanned day is an input of the model (sunLon), a       *)
(* number standing for degrees in [0, 360).  Only its comparison with 180  *)
(* is read by the code.                                                    *)
(***************************************************************************)
March == 3
September == 9
VernalFirstDay == 10
VernalLastDay == 31
AutumnalFirstDay == 10
AutumnalLastDay == 30
HalfTurn == 180

ScanDays == VernalFirstDay .. VernalLastDay

\* sunLongitude(time2JulianYear(time.Date(year, month, day, 0, 0, 0, 0, jst)))
\* The readings in sunLon are those of the year asked about; one behaviour
\* holds one set of readings, and the initial states range over the sets.
sunLongitudeAt(year, month, day) == sunLon[month][day]

RECURSIVE vernalLoop(_, _)
vernalLoop(year, i) ==
    IF i <= VernalLastDay
    THEN IF sunLongitudeAt(year, March, i) < HalfTurn
         THEN i - 1
         ELSE vernalLoop(year, i + 1)
    ELSE 0

\* A vernalEquinoxDay that returns the day of the crossing itself.
vernalEquinoxDayNoStepBack(year) ==
    LET d == vernalLoop(year, VernalFirstDay) IN IF d = 0 THEN 0 ELSE d + 1

vernalEquinoxDay(year) == vernalLoop(year, VernalFirstDay)

RECURSIVE autumnalLoop(_, _)
autumnalLoop(year, i) ==
    IF i <= AutumnalLastDay
    THEN IF sunLongitudeAt(year, September, i) >= HalfTurn
         THEN i - 1
         ELSE autumnalLoop(year, i + 1)
    ELSE 0

autumnalEquinoxDay(year) == autumnalLoop(year, AutumnalFirstDay)

(***************************************************************************)
(* Holiday calculator                                                      *)
(***************************************************************************)
\* Days from 1970-01-01 to the civil date, months outside 1..12 normalised
\* as time.Date normalises them.
DaysFromCivil(year, month, day) ==
    LET yn  == year + ((month - 1) \div 12)
        mn  == ((month - 1) % 12) + 1
        y   == IF mn <= 2 THEN yn - 1 ELSE yn
        era == y \div 400
        yoe == y - era * 400
        mp  == (mn + 9) % 12
        doy == ((153 * mp + 2) \div 5) + day - 1
        doe == yoe * 365 + (yoe \div 4) - (yoe \div 100) + doy
    IN  era * 146097 + doe - 719468

\* time.Date(year, month, day, 0, 0, 0, 0, time.UTC).Weekday(); Sunday = 0.
Weekday(year, month, day) == (DaysFromCivil(year, month, day) + 4) % 7

\* The search for the rule of the year: i runs from len down to 1 and the
\* element tested is annuallyHolidaysRules[i-1] (here 1-based: index i).
RECURSIVE ruleLoop(_, _)
ruleLoop(i, year) ==
    IF i > 0
    THEN IF annuallyHolidaysRules[i].BeginYear >= year
         THEN i
         ELSE ruleLoop(i - 1, year)
    ELSE 0

\* The local `rule` after the loop: an index into annuallyHolidaysRules, 0 for nil.
selectRule(year) == ruleLoop(Len(annuallyHolidaysRules), year)

yearPrefix(year) == FmtInt(year, 4) \o <<DashChar>>
monthPrefix(month) == FmtInt(month, 2) \o <<DashChar>>

\* The loop over rule.StaticHolydays.
staticEntries(r, year, month) ==
    LET InMonth(d) == HasPrefix(d.Date, monthPrefix(month))
        sel == SelectSeq(r.StaticHolydays, InMonth)
    IN  [k \in 1 .. Len(sel) |->
            [Date |-> yearPrefix(year) \o sel[k].Date, Name |-> sel[k].Name]]

\* A day computation that forgets to wrap a negative weekday difference.
weekdayRuleDayNoWrap(d, weekdayOfFirstDay) ==
    (d.Weekday - weekdayOfFirstDay) + d.Index * 7 + 1

\* day := int(d.Weekday - weekdayOfFirstDay); if day < 0 { day += 7 }; day += d.Index*7 + 1
weekdayRuleDay(d, weekdayOfFirstDay) ==
    LET day == d.Weekday - weekdayOfFirstDay
    IN  (IF day < 0 THEN day + 7 ELSE day) + d.Index * 7 + 1

\* The loop over rule.WeekdayHolydays.
weekdayEntries(r, year, month) ==
    LET weekdayOfFirstDay == Weekday(year, month, 1)
        InMonth(d) == d.Month = month
        sel == SelectSeq(r.WeekdayHolydays, InMonth)
    IN  [k \in 1 .. Len(sel) |->
            [Date |-> FormatDate(year, month, weekdayRuleDay(sel[k], weekdayOfFirstDay)),
             Name |-> sel[k].Name]]

VernalName == "Vernal Equinox Day"
AutumnalName == "Autumnal Equinox Day"

equinoxEntries(year, month) ==
    (IF month = March
     THEN <<[Date |-> FormatDate(year, month, vernalEquinoxDay(year)), Name |-> VernalName]>>
     ELSE <<>>)
    \o
    (IF month = September
     THEN <<[Date |-> FormatDate(year, month, autumnalEquinoxDay(year)), Name |-> AutumnalName]>>
     ELSE <<>>)

\* The loop over specialHolidays.
specialEntries(year, month) ==
    LET InMonth(d) == HasPrefix(d.Date, yearPrefix(year) \o monthPrefix(month))
    IN  SelectSeq(specialHolidays, InMonth)

\* holydays just before sort.Sort, for a selected rule r.
unsortedHolydays(r, year, month) ==
    staticEntries(r, year, month) \o weekdayEntries(r, year, month)
        \o equinoxEntries(year, month) \o specialEntries(year, month)

\* Insertion of x behind every element that is not greater (withDate.Less).
RECURSIVE insertSorted(_, _)
insertSorted(s, x) ==
    IF s = <<>> THEN <<x>>
    ELSE IF StrLess(x.Date, s[Len(s)].Date)
         THEN insertSorted(SubSeq(s, 1, Len(s) - 1), x) \o <<s[Len(s)]>>
         ELSE s \o <<x>>

RECURSIVE insertionSort(_, _)
insertionSort(done, rest) ==
    IF rest = <<>> THEN done
    ELSE insertionSort(insertSorted(done, Head(rest)), Tail(rest))

\* A sort that leaves the slice as it is.
sortNothing(s) == s

\* sort.Sort(withDate(holydays)).  The order sort.Sort leaves among records of
\* equal Date is not specified; the insertion sort's is taken.
sortWithDate(s) == insertionSort(<<>>, s)

calcHolidaysInMonthWithoutInLieu(year, month) ==
    LET i == selectRule(year)
    IN  IF i = 0 THEN <<>>
        ELSE sortWithDate(unsortedHolydays(annuallyHolidaysRules[i], year, month))

calcHolidaysInMonth(year, month) == calcHolidaysInMonthWithoutInLieu(year, month)

RECURSIVE calcYearLoop(_, _)
calcYearLoop(year, month) ==
    IF month <= 12
    THEN calcHolidaysInMonth(year, month) \o calcYearLoop(year, month + 1)
    ELSE <<>>

calcHolidaysInYear(year) == calcYearLoop(year, 1)

(***************************************************************************)
(* Inputs of the model                                                     *)
(***************************************************************************)
Sunday == 0
Monday == 1
Saturday == 6

\* The readings of one scan: a before breakpoint k1, b up to k2, c from k2 on.
StepLon(k1, k2, a, b, c) ==
    [i \in ScanDays |-> IF i < k1 THEN a ELSE IF i < k2 THEN b ELSE c]

LonValues == {0, 179, 180, 359}
LonBreaks == {10, 11, 21, 31, 32}

\* Every scan the equinox specification draws from.
LonScans ==
    {StepLon(k1, k2, a, b, c) : k1 \in LonBreaks, k2 \in LonBreaks,
                                a \in LonValues, b \in LonValues, c \in LonValues}

\* The sun as it moves: the longitude wraps through 0 in March and passes 180 in
\* September, on the 21st/23rd, or one day earlier/later, or (last) in neither scan.
SunOn(vernal, autumnal) ==
    [m \in {March, September} |->
        IF m = March THEN StepLon(vernal + 1, 32, 359, 0, 0)
        ELSE StepLon(autumnal + 1, 32, 179, 180, 180)]

CalcSuns == {SunOn(21, 23), SunOn(20, 22), SunOn(31, 31)}

DefaultSun == SunOn(21, 23)

\* Rule generations: the contents of a law, and the years it may begin.
OldLaw ==
    [StaticHolydays |->
        << [Date |-> <<48, 49, 45, 48, 49>>, Name |-> "New Year's Day"],
           [Date |-> <<48, 49, 45, 49, 53>>, Name |-> "Coming of Age Day"],
           [Date |-> <<48, 57, 45, 49, 53>>, Name |-> "Respect for the Aged Day"] >>,
     WeekdayHolydays |-> << >>]

HappyMondayLaw ==
    [StaticHolydays |->
        << [Date |-> <<48, 49, 45, 48, 49>>, Name |-> "New Year's Day"] >>,
     WeekdayHolydays |->
        << [Month |-> 1, Weekday |-> Monday, Index |-> 1, Name |-> "Coming of Age Day"],
           [Month |-> 9, Weekday |-> Monday, Index |-> 2, Name |-> "Respect for the Aged Day"] >>]

\* Rules listed out of date order, and a weekday rule that precedes a fixed one.
MixedLaw ==
    [StaticHolydays |->
        << [Date |-> <<49, 49, 45, 50, 51>>, Name |-> "Labor Thanksgiving Day"],
           [Date |-> <<49, 49, 45, 48, 51>>, Name |-> "Culture Day"],
           [Date |-> <<48, 51, 45, 50, 48>>, Name |-> "Spring Festival"] >>,
     WeekdayHolydays |->
        << [Month |-> 11, Weekday |-> Sunday, Index |-> 0, Name |-> "First Sunday"] >>]

Laws == {OldLaw, HappyMondayLaw, MixedLaw}
BeginYears == {2016, 2019, 2021}

Generation(by, law) ==
    [BeginYear |-> by, StaticHolydays |-> law.StaticHolydays,
     WeekdayHolydays |-> law.WeekdayHolydays]

Generations == {Generation(by, law) : by \in BeginYears, law \in Laws}

\* Rule lists: ordered ascending by BeginYear, one generation per year.
RuleLists ==
    UNION { {s \in [1 .. n -> Generations] :
                \A i \in 1 .. (n - 1) : s[i].BeginYear < s[i + 1].BeginYear}
            : n \in 1 .. MaxGen }

DefaultRules == << Generation(2016, HappyMondayLaw) >>

SpecialPool ==
    { [Date |-> FormatDate(2019, 5, 1),  Name |-> "Enthronement Day"],
      [Date |-> FormatDate(2019, 3, 20), Name |-> "Special Day in March"],
      [Date |-> FormatDate(2019, 1, 1),  Name |-> "Special New Year"] }

\* Special tables: unordered, no record twice.
SpecialTables ==
    UNION { {s \in [1 .. n -> SpecialPool] :
                \A i \in 1 .. n : \A j \in 1 .. n : i # j => s[i] # s[j]}
            : n \in 0 .. MaxSpecial }

\* One generation with one weekday rule, every month, weekday and index.
WeekdayRuleLists ==
    { << [BeginYear |-> 2021, StaticHolydays |-> << >>,
          WeekdayHolydays |->
              << [Month |-> m, Weekday |-> w, Index |-> k, Name |-> "Weekday Holiday"] >>] >>
      : m \in 1 .. 12, w \in Sunday .. Saturday, k \in 0 .. MaxIndex }

QueryYears == {-1, 2019, 2020, 2021, 2022, 10000}
QueryMonths == {-1, 0} \cup (1 .. 12) \cup {13, 100}
QueryDays == {0, 1, 8, 31, 32, 100}
CalcYears == {2018, 2019, 2020, 2021}
CalcMonths == 1 .. 12

(***************************************************************************)
(* State machine: the package-level data is fixed at initialisation; every *)
(* action is one call of a function of the package.                        *)
(***************************************************************************)
\* A call runs from the idle state and leaves its name, arguments and return value.
Called(o, a, r, i) ==
    op = "idle" /\ op' = o /\ args' = a /\ result' = r /\ rule' = i

Data == <<holidays, annuallyHolidaysRules, specialHolidays, sunLon>>

Fresh == op = "idle" /\ args = << >> /\ result = << >> /\ rule = 0

\* The caller takes the return value; the package keeps nothing of a call.
Return ==
    /\ op # "idle"
    /\ op' = "idle" /\ args' = << >> /\ result' = << >> /\ rule' = 0
    /\ UNCHANGED Data

\* Lookup engine: every table the generator can emit.
Init ==
    /\ \E rows \in CsvInputs : holidays = GeneratedTable(rows)
    /\ annuallyHolidaysRules = DefaultRules
    /\ specialHolidays = << >>
    /\ sunLon = DefaultSun
    /\ Fresh

FindHoliday ==
    \E y \in QueryYears, m \in QueryMonths, d \in QueryDays :
        /\ Called("findHoliday", <<y, m, d>>, findHoliday(y, m, d), 0)
        /\ UNCHANGED Data

FindHolidaysInMonth ==
    \E y \in QueryYears, m \in QueryMonths :
        /\ Called("findHolidaysInMonth", <<y, m>>, findHolidaysInMonth(y, m), 0)
        /\ UNCHANGED Data

FindHolidaysInYear ==
    \E y \in QueryYears :
        /\ Called("findHolidaysInYear", <<y>>, findHolidaysInYear(y), 0)
        /\ UNCHANGED Data

Next == FindHoliday \/ FindHolidaysInMonth \/ FindHolidaysInYear \/ Return

Spec == Init /\ [][Next]_vars

\* Calculator: every rule list, special table and sun.
InitCalc ==
    /\ holidays = << >>
    /\ annuallyHolidaysRules \in RuleLists
    /\ specialHolidays \in SpecialTables
    /\ sunLon \in CalcSuns
    /\ Fresh

CalcHolidaysInMonth ==
    \E y \in CalcYears, m \in CalcMonths :
        /\ Called("calcHolidaysInMonth", <<y, m>>, calcHolidaysInMonth(y, m), selectRule(y))
        /\ UNCHANGED Data

CalcHolidaysInYear ==
    \E y \in CalcYears :
        /\ Called("calcHolidaysInYear", <<y>>, calcHolidaysInYear(y), selectRule(y))
        /\ UNCHANGED Data

NextCalc == CalcHolidaysInMonth \/ CalcHolidaysInYear \/ Return

SpecCalc == InitCalc /\ [][NextCalc]_vars

\* Calculator on weekday rules: every single weekday rule.
InitWeekday ==
    /\ holidays = << >>
    /\ annuallyHolidaysRules \in WeekdayRuleLists
    /\ specialHolidays = << >>
    /\ sunLon = DefaultSun
    /\ Fresh

SpecWeekday == InitWeekday /\ [][NextCalc]_vars

\* Equinox search: every scan.
InitEquinox ==
    /\ holidays = << >>
    /\ annuallyHolidaysRules = DefaultRules
    /\ specialHolidays = << >>
    /\ \E v \in LonScans, a \in {StepLon(23, 32, 179, 180, 180), StepLon(32, 32, 179, 179, 179)} :
           sunLon = [m \in {March, September} |-> IF m = March THEN v ELSE a]
    /\ Fresh

VernalEquinoxDay ==
    \E y \in CalcYears :
        /\ Called("vernalEquinoxDay", <<y>>, vernalEquinoxDay(y), 0)
        /\ UNCHANGED Data

AutumnalEquinoxDay ==
    \E y \in CalcYears :
        /\ Called("autumnalEquinoxDay", <<y>>, autumnalEquinoxDay(y), 0)
        /\ UNCHANGED Data

NextEquinox == VernalEquinoxDay \/ AutumnalEquinoxDay \/ Return

SpecEquinox == InitEquinox /\ [][NextEquinox]_vars

(***************************************************************************)
(* Reference notions the properties are stated with                        *)
(***************************************************************************)
\* The number written in s[from..to] (decimal digits).
RECURSIVE NumberAt(_, _, _)
NumberAt(s, from, to) ==
    IF to < from THEN 0
    ELSE NumberAt(s, from, to - 1) * 10 + (s[to] - ZeroChar)

\* Year, month and day of a ten-character YYYY-MM-DD string.
YearOf(s) == NumberAt(s, 1, 4)
MonthOf(s) == NumberAt(s, 6, 7)
DayOf(s) == NumberAt(s, 9, 10)

\* a is not after b on the calendar.
NotAfter(a, b) ==
    \/ YearOf(a) < YearOf(b)
    \/ YearOf(a) = YearOf(b) /\ MonthOf(a) < MonthOf(b)
    \/ YearOf(a) = YearOf(b) /\ MonthOf(a) = MonthOf(b) /\ DayOf(a) <= DayOf(b)

Chronological(s) ==
    \A i \in 1 .. Len(s) : \A j \in 1 .. Len(s) :
        i < j => NotAfter(s[i].Date, s[j].Date)

IsLeap(y) == (y % 4 = 0 /\ y % 100 # 0) \/ y % 400 = 0

DaysInMonth(y, m) ==
    IF m = 2 THEN (IF IsLeap(y) THEN 29 ELSE 28)
    ELSE IF m \in {4, 6, 9, 11} THEN 30 ELSE 31

RECURSIVE DaysBeforeMonth(_, _)
DaysBeforeMonth(y, m) ==
    IF m = 1 THEN 0 ELSE DaysBeforeMonth(y, m - 1) + DaysInMonth(y, m - 1)

RECURSIVE DaysBeforeYear(_)
DaysBeforeYear(y) ==
    IF y <= 2018 THEN 0
    ELSE DaysBeforeYear(y - 1) + (IF IsLeap(y - 1) THEN 366 ELSE 365)

\* The weekday of a date from 2018 on, counted from Monday 2018-01-01.
CalendarWeekday(y, m, d) ==
    (Monday + DaysBeforeYear(y) + DaysBeforeMonth(y, m) + d - 1) % 7

RECURSIVE ConcatMonths(_, _, _)
ConcatMonths(F(_, _), year, month) ==
    IF month <= 12 THEN F(year, month) \o ConcatMonths(F, year, month + 1)
    ELSE <<>>

\* The latest generation whose BeginYear is not after the year; 0 if there is none.
LatestApplicable(year) ==
    LET ok == {i \in 1 .. Len(annuallyHolidaysRules) :
                   annuallyHolidaysRules[i].BeginYear <= year}
    IN  IF ok = {} THEN 0 ELSE CHOOSE i \in ok : \A j \in ok : j <= i

RuleNames ==
    UNION { {g.StaticHolydays[k].Name : k \in 1 .. Len(g.StaticHolydays)}
            \cup {g.WeekdayHolydays[k].Name : k \in 1 .. Len(g.WeekdayHolydays)}
            : g \in {annuallyHolidaysRules[i] : i \in 1 .. Len(annuallyHolidaysRules)} }

Records(s) == {s[i] : i \in 1 .. Len(s)}

(***************************************************************************)
(* Properties                                                              *)
(***************************************************************************)
\* The rows of the CSV input that the table holds for the queried date.
RowsOfQuery ==
    {r \in CsvPool :
        /\ <<r.y, r.m, r.d>> = args
        /\ [Date |-> formatDate(r), Name |-> r.name] \in Records(holidays)}

\* C1: findHoliday returns found = true with the table's record of the date
\* exactly when the table holds a record of that year, month and day, and the
\* empty record with found = false otherwise, also for dates outside the years
\* of the table.
C1_FindHolidayAgreesWithTable ==
    op = "findHoliday" =>
        IF RowsOfQuery # {}
        THEN /\ result.found
             /\ \E r \in RowsOfQuery :
                    result.holiday = [Date |-> formatDate(r), Name |-> r.name]
        ELSE result = [holiday |-> EmptyHoliday, found |-> FALSE]

C1_Witness ==
    /\ op = "findHoliday"
    /\ result.found
    /\ Len(holidays) >= 3
    /\ result.holiday = holidays[Len(holidays)]

\* C2: the month slices of a year, January to December, concatenated in order
\* are the year slice: same records, same order.
C2_MonthsConcatenateToYear ==
    op = "findHolidaysInYear" =>
        result = ConcatMonths(findHolidaysInMonth, args[1], 1)

C2_Witness ==
    /\ op = "findHolidaysInYear"
    /\ Len(result) >= 3
    /\ \E i \in 1 .. Len(result) : result[i].Date = FormatDate(args[1], 1, 31)
    /\ \E i \in 1 .. Len(result) : result[i].Date = FormatDate(args[1], 12, 31)
    /\ Len(holidays) > Len(result)

\* C3 (as claimed): the calculator uses the latest generation whose BeginYear is
\* less than or equal to the year, and none when the year precedes them all.
C3_UsesLatestApplicableGeneration ==
    op \in {"calcHolidaysInMonth", "calcHolidaysInYear"} =>
        rule = LatestApplicable(args[1])

\* C4 (as claimed): no two records of calcHolidaysInMonth have the same date.
C4_NoDuplicateDates ==
    op = "calcHolidaysInMonth" =>
        \A i \in 1 .. Len(result) : \A j \in 1 .. Len(result) :
            i # j => result[i].Date # result[j].Date

\* C5: calcHolidaysInMonth is in calendar order, and calcHolidaysInYear is the
\* twelve monthly results in month order and in calendar order as a whole.
C5_CalcSorted ==
    /\ op = "calcHolidaysInMonth" => Chronological(result)
    /\ op = "calcHolidaysInYear" =>
          /\ result = ConcatMonths(calcHolidaysInMonth, args[1], 1)
          /\ Chronological(result)

C5_Witness ==
    /\ op = "calcHolidaysInYear"
    /\ rule # 0
    /\ Len(result) >= 4
    /\ \E m \in CalcMonths :
          /\ Len(calcHolidaysInMonth(args[1], m)) >= 2
          /\ calcHolidaysInMonth(args[1], m)
                 # unsortedHolydays(annuallyHolidaysRules[rule], args[1], m)

\* The records of the result that a weekday rule of the requested month emitted.
WeekdayRulesOfCall ==
    IF rule = 0 THEN {}
    ELSE {d \in Records(annuallyHolidaysRules[rule].WeekdayHolydays) : d.Month = args[2]}

\* C6: for a weekday rule of the selected generation in the requested month the
\* record has day 1 + ((Weekday - weekday of day 1 + 7) mod 7) + 7 * Index; that
\* day falls on the rule's weekday, it is the (Index+1)-th such weekday counted
\* from day 1, and for Index up to 3 it lies within the month.
C6_WeekdayRuleDay ==
    op = "calcHolidaysInMonth" =>
        \A d \in WeekdayRulesOfCall :
            LET y   == args[1]
                m   == args[2]
                day == 1 + ((d.Weekday - CalendarWeekday(y, m, 1) + 7) % 7) + 7 * d.Index
            IN  /\ \E rec \in Records(result) :
                       rec.Name = d.Name /\ rec.Date = FormatDate(y, m, day)
                /\ \A rec \in Records(result) :
                       rec.Name = d.Name => rec.Date = FormatDate(y, m, day)
                /\ CalendarWeekday(y, m, day) = d.Weekday
                /\ Cardinality({x \in 1 .. day : CalendarWeekday(y, m, x) = d.Weekday})
                       = d.Index + 1
                /\ d.Index <= 3 => day <= DaysInMonth(y, m)

C6_Witness ==
    /\ op = "calcHolidaysInMonth"
    /\ \E d \in WeekdayRulesOfCall :
          /\ d.Index = 2
          /\ d.Weekday < CalendarWeekday(args[1], args[2], 1)
          /\ \E rec \in Records(result) : rec.Name = d.Name

\* C7 (as claimed): an equinox record of calcHolidaysInMonth never carries a day
\* that is no calendar day (day 00) when the search finds no crossing.
C7_NoDefaultEquinoxDay ==
    op = "calcHolidaysInMonth" =>
        \A rec \in Records(result) :
            rec.Name \in {VernalName, AutumnalName} => DayOf(rec.Date) >= 1

\* C8 (as claimed): when no generation applies to the year, the result has no
\* fixed-date and no weekday-rule record, and still has the equinox record in
\* March and September and every special record of the year-month.
C8_NoRuleKeepsEquinoxAndSpecial ==
    (op = "calcHolidaysInMonth" /\ LatestApplicable(args[1]) = 0) =>
        /\ \A rec \in Records(result) : rec.Name \notin RuleNames
        /\ args[2] = March => \E rec \in Records(result) : rec.Name = VernalName
        /\ args[2] = September => \E rec \in Records(result) : rec.Name = AutumnalName
        /\ \A sp \in Records(specialHolidays) :
               (YearOf(sp.Date) = args[1] /\ MonthOf(sp.Date) = args[2])
                   => sp \in Records(result)

\* The scanned March days whose longitude is below 180, and those at or above.
DaysBelow == {i \in ScanDays : sunLon[March][i] < HalfTurn}
DaysNotBelow == {i \in ScanDays : sunLon[March][i] >= HalfTurn}
First(S) == CHOOSE i \in S : \A j \in S : i <= j

\* C9 (as claimed): vernalEquinoxDay returns i - 1 for the first scanned i whose
\* longitude is no longer below 180 (longitude >= 180).
C9_ReturnsBeforeFirstNotBelow ==
    (op = "vernalEquinoxDay" /\ DaysNotBelow # {}) =>
        result = First(DaysNotBelow) - 1

\* C9 (amended): vernalEquinoxDay returns i - 1 for the first scanned i, in
\* ascending order from 10 to 31, whose longitude is below 180 (longitude < 180).
C9_ReturnsBeforeFirstBelow ==
    (op = "vernalEquinoxDay" /\ DaysBelow # {}) =>
        result = First(DaysBelow) - 1

C9_Witness ==
    /\ op = "vernalEquinoxDay"
    /\ DaysBelow # {}
    /\ First(DaysBelow) = 21
    /\ \E i \in DaysBelow, j \in DaysNotBelow : i < j
    /\ result = 20

\* C10: findHolidaysInMonth and findHolidaysInYear compute 0 <= start <= end <=
\* len(holidays) for every year and month, so the slice expression never panics.
C10_SliceBoundsInOrder ==
    /\ op = "findHolidaysInMonth" =>
          LET start == searchHolidays(monthStartDate(args[1], args[2]))
              end   == searchHolidays(monthEndDate(args[1], args[2]))
          IN  /\ 0 <= start /\ start <= end /\ end <= Len(holidays)
              /\ result # Panic
              /\ result = SubSeq(holidays, start + 1, end)
    /\ op = "findHolidaysInYear" =>
          LET start == searchHolidays(yearStartDate(args[1]))
              end   == searchHolidays(yearEndDate(args[1]))
          IN  /\ 0 <= start /\ start <= end /\ end <= Len(holidays)
              /\ result # Panic
              /\ result = SubSeq(holidays, start + 1, end)

C10_Witness ==
    /\ op = "findHolidaysInMonth"
    /\ args[1] = 10000
    /\ args[2] = 100
    /\ Len(holidays) >= 3
    /\ result = << >>

====
